---- MODULE Spec2Model ----
(***************************************************************************)
(* Dreamachine (src/src/main.rs): the state record DreamApp and its one    *)
(* entry point, App::update, called once per display frame.                *)
(*                                                                         *)
(* Units.  Instants and Durations are integers counting ticks of           *)
(* 1/TicksPerSec second.  TicksPerSec is a multiple of 100 * lcm(8..13),   *)
(* so 1/hz seconds is a whole number of ticks for every selectable hz and  *)
(* so is every multiple of 10 ms: the f32 arithmetic of the source is      *)
(* modelled by exact rational arithmetic.  A normalised position (a        *)
(* fraction of the window width) is an integer counting 1/TicksPerSec, so  *)
(* that t[s] * speed = t[ticks] * speed in these units.  An angle is an    *)
(* integer counting 1/TAU of a turn, with TAU = TicksPerSec.               *)
(*                                                                         *)
(* Time.  clock is the reading of Instant::now().  It advances between two *)
(* update() calls by a whole number of quanta (Quantum = 35 ms) and every  *)
(* read inside one update() call returns the same value: a call is much    *)
(* shorter than a quantum.                                                 *)
(*                                                                         *)
(* update() is split at its own section marks: the menu (one action per    *)
(* button), === BLINK STATE ===, the Confirm Quit window, === DRAW ===.    *)
(* pc is the position inside the call.                                     *)
(***************************************************************************)
EXTENDS Integers, Sequences, FiniteSets, TLC

VARIABLES
    \* the fields of struct DreamApp
    flashing, last_toggle, show_white, interval, start_stop_text,
    spin_start, spin_speed, mode, sweep_start, beam_width_norm,
    frequency_hz, sweep_speed, confirm_quit, fullscreen,
    \* the environment of update()
    clock,        \* Instant::now()
    pc,           \* "idle" between two calls, else the next section of update()
    show_menu,    \* the local of update(), FALSE outside a call
    hover_pos,    \* pointer.hover_pos() as read at the top of this call; dropped
                  \* ("none") once the menu section is left
    click,        \* the menu button whose clicked() is true in this call, or "none"
    closed,       \* ViewportCommand::Close has been sent
    drawn,        \* what the painter received in this call
    repaint,      \* ctx.request_repaint() was called by the last call
    last_error,   \* what the last call wrote to standard error
    toggles       \* history: timer toggles since the last Start/Stop click

fields == <<flashing, last_toggle, show_white, interval, start_stop_text,
            spin_start, spin_speed, mode, sweep_start, beam_width_norm,
            frequency_hz, sweep_speed, confirm_quit, fullscreen>>

env == <<clock, pc, show_menu, hover_pos, click, closed, drawn, repaint, last_error, toggles>>

vars == <<fields, env>>

----------------------------------------------------------------------------
\* Units and bounds

TicksPerSec == 8 * 9 * 5 * 11 * 13 * 100

Quantum == (35 * TicksPerSec) \div 1000

\* horizon of Spec, in quanta
MaxTime == 3

\* horizon of SpecFlash, in quanta
MaxFlashTime == 10

\* longest gap between two frames of SpecFlash, in quanta: 70 ms, less than every
\* selectable interval
MaxFlashGap == 2
\* horizon of SpecRepaint, in quanta
MaxRepaintTime == 1

\* longest gap between two frames of SpecStall, in quanta: 245 ms, more than
\* three intervals at 13 Hz
MaxStallGap == 7

TAU == TicksPerSec

Modes == {"Flash", "Sweep", "Lighthouse"}

HertzChoices == {8, 9, 10, 11, 12, 13}

\* pointer.hover_pos(): None, Some(pos) with pos.y <= 60, Some(pos) with pos.y > 60
Hovers == {"none", "top", "below"}

DefaultHz == 10

DefaultSpinSpeed == 10

\* 0.4 of the window width
DefaultBeamWidthNorm == (4 * TicksPerSec) \div 10

\* Duration::from_secs_f32(1.0 / hz)
DurationOfOneOver(hz) == TicksPerSec \div hz

----------------------------------------------------------------------------
\* What the painter receives

Blank == [kind |-> "none", color |-> "none", center_norm |-> 0, beam_w_norm |-> 0, angle |-> 0]

Fill(c) == [Blank EXCEPT !.kind = "fill", !.color = c]

Beam(c, w) == [Blank EXCEPT !.kind = "beam", !.center_norm = c, !.beam_w_norm = w]

Wedge(a) == [Blank EXCEPT !.kind = "wedge", !.angle = a]

----------------------------------------------------------------------------
\* DreamApp::default, then DreamApp::new; the first frame is still to come

Init ==
    /\ flashing = FALSE
    /\ last_toggle = 0
    /\ show_white = FALSE
    /\ frequency_hz = DefaultHz
    /\ interval = DurationOfOneOver(frequency_hz)
    /\ start_stop_text = "Start"
    /\ spin_start = 0
    /\ spin_speed = DefaultSpinSpeed
    /\ mode = "Sweep"
    /\ sweep_start = 0
    /\ beam_width_norm = DefaultBeamWidthNorm
    /\ sweep_speed = frequency_hz
    /\ confirm_quit = FALSE
    /\ fullscreen = FALSE
    /\ clock = 0
    /\ pc = "idle"
    /\ show_menu = FALSE
    /\ hover_pos = "none"
    /\ click = "none"
    /\ closed = FALSE
    /\ drawn = Blank
    /\ repaint = FALSE
    /\ last_error = "none"
    /\ toggles = 0

----------------------------------------------------------------------------
\* The top of update(): the call starts d quanta after the previous one, with the
\* pointer at hover; the surface is cleared and show_menu is computed.  What the
\* call writes to standard error is set by the menu section.

\* as TopOfUpdate, the menu bar shown in every frame
TopOfUpdateMenuAlways(d, hover, horizon) ==
    /\ pc = "idle"
    /\ ~closed
    /\ clock + d * Quantum <= horizon * Quantum
    /\ clock' = clock + d * Quantum
    /\ hover_pos' = hover
    /\ show_menu' = TRUE
    /\ drawn' = Blank
    /\ repaint' = FALSE
    /\ closed' = closed
    /\ pc' = "blink"

TopOfUpdate(d, hover, horizon) ==
    /\ pc = "idle"
    /\ ~closed
    /\ clock + d * Quantum <= horizon * Quantum
    /\ clock' = clock + d * Quantum
    /\ hover_pos' = hover
    /\ show_menu' = (~fullscreen \/ hover = "top")
    /\ drawn' = Blank
    /\ repaint' = FALSE
    /\ closed' = closed
    /\ pc' = "blink"

\* a click on a button of the menu bar: the bar is shown in this frame
MenuClick(d, hover, button) ==
    /\ TopOfUpdate(d, hover, MaxTime)
    /\ show_menu'
    /\ click' = button
    /\ last_error' = "none"

----------------------------------------------------------------------------
\* The handlers of the menu buttons

\* as StartStopClicked, the restart of the blink timer forgotten
StartStopClickedKeepsLastToggle ==
    /\ flashing' = ~flashing
    /\ start_stop_text' = IF flashing' THEN "Stop" ELSE "Start"
    /\ show_white' = FALSE
    /\ toggles' = 0
    /\ UNCHANGED <<last_toggle, interval, spin_start, spin_speed, mode, sweep_start,
                   beam_width_norm, frequency_hz, sweep_speed, confirm_quit, fullscreen>>

\* as StartStopClicked, the blink phase left as it is
StartStopClickedKeepsShowWhite ==
    /\ flashing' = ~flashing
    /\ start_stop_text' = IF flashing' THEN "Stop" ELSE "Start"
    /\ last_toggle' = clock'
    /\ toggles' = 0
    /\ UNCHANGED <<show_white, interval, spin_start, spin_speed, mode, sweep_start,
                   beam_width_norm, frequency_hz, sweep_speed, confirm_quit, fullscreen>>

\* as StartStopClicked, the label taken from flashing before it is flipped
StartStopClickedLabelBeforeFlip ==
    /\ flashing' = ~flashing
    /\ start_stop_text' = IF flashing THEN "Stop" ELSE "Start"
    /\ last_toggle' = clock'
    /\ show_white' = FALSE
    /\ toggles' = 0
    /\ UNCHANGED <<interval, spin_start, spin_speed, mode, sweep_start,
                   beam_width_norm, frequency_hz, sweep_speed, confirm_quit, fullscreen>>

StartStopClicked ==
    /\ flashing' = ~flashing
    /\ start_stop_text' = IF flashing' THEN "Stop" ELSE "Start"
    /\ last_toggle' = clock'
    /\ show_white' = FALSE
    /\ toggles' = 0
    /\ UNCHANGED <<interval, spin_start, spin_speed, mode, sweep_start,
                   beam_width_norm, frequency_hz, sweep_speed, confirm_quit, fullscreen>>

QuitClicked ==
    /\ confirm_quit' = TRUE
    /\ UNCHANGED <<flashing, last_toggle, show_white, interval, start_stop_text,
                   spin_start, spin_speed, mode, sweep_start, beam_width_norm,
                   frequency_hz, sweep_speed, fullscreen, toggles>>

ModeFlashClicked ==
    /\ mode' = "Flash"
    /\ sweep_start' = clock'
    /\ UNCHANGED <<flashing, last_toggle, show_white, interval, start_stop_text,
                   spin_start, spin_speed, beam_width_norm, frequency_hz,
                   sweep_speed, confirm_quit, fullscreen, toggles>>

ModeSweepClicked ==
    /\ mode' = "Sweep"
    /\ sweep_start' = clock'
    /\ UNCHANGED <<flashing, last_toggle, show_white, interval, start_stop_text,
                   spin_start, spin_speed, beam_width_norm, frequency_hz,
                   sweep_speed, confirm_quit, fullscreen, toggles>>

\* as ModeLighthouseClicked, resetting both origins
ModeLighthouseClickedResetsBoth ==
    /\ mode' = "Lighthouse"
    /\ spin_start' = clock'
    /\ sweep_start' = clock'
    /\ UNCHANGED <<flashing, last_toggle, show_white, interval, start_stop_text,
                   spin_speed, beam_width_norm, frequency_hz,
                   sweep_speed, confirm_quit, fullscreen, toggles>>

ModeLighthouseClicked ==
    /\ mode' = "Lighthouse"
    /\ spin_start' = clock'
    /\ UNCHANGED <<flashing, last_toggle, show_white, interval, start_stop_text,
                   spin_speed, sweep_start, beam_width_norm, frequency_hz,
                   sweep_speed, confirm_quit, fullscreen, toggles>>

\* as HertzClicked, sweep_speed forgotten
HertzClickedKeepsSweepSpeed(hz) ==
    /\ frequency_hz' = hz
    /\ interval' = DurationOfOneOver(hz)
    /\ UNCHANGED <<flashing, last_toggle, show_white, start_stop_text, spin_start,
                   spin_speed, mode, sweep_start, sweep_speed, beam_width_norm,
                   confirm_quit, fullscreen, toggles>>

HertzClicked(hz) ==
    /\ frequency_hz' = hz
    /\ interval' = DurationOfOneOver(hz)
    /\ sweep_speed' = hz
    /\ UNCHANGED <<flashing, last_toggle, show_white, start_stop_text, spin_start,
                   spin_speed, mode, sweep_start, beam_width_norm, confirm_quit,
                   fullscreen, toggles>>

FullscreenClicked ==
    /\ fullscreen' = ~fullscreen
    /\ UNCHANGED <<flashing, last_toggle, show_white, interval, start_stop_text,
                   spin_start, spin_speed, mode, sweep_start, beam_width_norm,
                   frequency_hz, sweep_speed, confirm_quit, toggles>>

\* as LearnMoreClicked, a failed launch stopping the stimulus
LearnMoreClickedStopsOnErr(opened) ==
    /\ last_error' = IF opened THEN "none" ELSE "browser"
    /\ flashing' = (flashing /\ opened)
    /\ UNCHANGED <<last_toggle, show_white, interval, start_stop_text, spin_start,
                   spin_speed, mode, sweep_start, beam_width_norm, frequency_hz,
                   sweep_speed, confirm_quit, fullscreen, toggles>>

\* webbrowser::open(url) returns Ok (opened) or Err, which is printed
LearnMoreClicked(opened) ==
    /\ last_error' = IF opened THEN "none" ELSE "browser"
    /\ UNCHANGED <<fields, toggles>>

----------------------------------------------------------------------------
\* The menu section of update(), one action per button

Gaps == 0 .. MaxTime

ClickStartStop ==
    \E d \in Gaps, hover \in Hovers :
        MenuClick(d, hover, "start_stop") /\ StartStopClicked

ClickQuit ==
    \E d \in Gaps, hover \in Hovers :
        MenuClick(d, hover, "quit") /\ QuitClicked

ClickModeFlash ==
    \E d \in Gaps, hover \in Hovers :
        MenuClick(d, hover, "flash") /\ ModeFlashClicked

ClickModeSweep ==
    \E d \in Gaps, hover \in Hovers :
        MenuClick(d, hover, "sweep") /\ ModeSweepClicked

ClickModeLighthouse ==
    \E d \in Gaps, hover \in Hovers :
        MenuClick(d, hover, "lighthouse") /\ ModeLighthouseClicked

ClickHertz ==
    \E d \in Gaps, hover \in Hovers, hz \in HertzChoices :
        MenuClick(d, hover, "hertz") /\ HertzClicked(hz)

ClickFullscreen ==
    \E d \in Gaps, hover \in Hovers :
        MenuClick(d, hover, "fullscreen") /\ FullscreenClicked

ClickLearnMore ==
    \E d \in Gaps, hover \in Hovers, opened \in BOOLEAN :
        /\ TopOfUpdate(d, hover, MaxTime)
        /\ show_menu'
        /\ click' = "learn_more"
        /\ LearnMoreClicked(opened)

\* no menu button is clicked in this frame (the bar may be hidden)
NoMenuClick ==
    \E d \in Gaps, hover \in Hovers :
        /\ TopOfUpdate(d, hover, MaxTime)
        /\ click' = "none"
        /\ last_error' = "none"
        /\ UNCHANGED <<fields, toggles>>

----------------------------------------------------------------------------
\* === BLINK STATE ===

\* as BlinkDue, without the wait for the interval
BlinkDueEveryFrame(now) == now - last_toggle >= 0

BlinkDue(now) == now - last_toggle >= interval

BlinkState ==
    /\ pc = "blink"
    /\ pc' = "confirm"
    /\ IF flashing /\ BlinkDue(clock)
       THEN /\ show_white' = ~show_white
            /\ last_toggle' = clock
            /\ toggles' = toggles + 1
       ELSE UNCHANGED <<show_white, last_toggle, toggles>>
    /\ UNCHANGED <<flashing, interval, start_stop_text, spin_start, spin_speed, mode,
                   sweep_start, beam_width_norm, frequency_hz, sweep_speed,
                   confirm_quit, fullscreen>>
    /\ hover_pos' = "none"
    /\ UNCHANGED <<clock, show_menu, click, closed, drawn, repaint, last_error>>

----------------------------------------------------------------------------
\* The Confirm Quit window, shown while confirm_quit; its buttons can take this
\* frame's click only if no menu button took it

\* as ConfirmQuitYes, the Yes button reachable without the window being shown
ConfirmQuitYesWithoutWindow ==
    /\ pc = "confirm"
    /\ click = "none"
    /\ closed' = TRUE
    /\ pc' = "draw"
    /\ UNCHANGED <<fields, clock, show_menu, hover_pos, click, drawn, repaint, last_error, toggles>>

ConfirmQuitYes ==
    /\ pc = "confirm"
    /\ confirm_quit
    /\ click = "none"
    /\ closed' = TRUE
    /\ pc' = "draw"
    /\ UNCHANGED <<fields, clock, show_menu, hover_pos, click, drawn, repaint, last_error, toggles>>

ConfirmQuitNo ==
    /\ pc = "confirm"
    /\ confirm_quit
    /\ click = "none"
    /\ confirm_quit' = FALSE
    /\ pc' = "draw"
    /\ UNCHANGED <<flashing, last_toggle, show_white, interval, start_stop_text,
                   spin_start, spin_speed, mode, sweep_start, beam_width_norm,
                   frequency_hz, sweep_speed, fullscreen>>
    /\ UNCHANGED <<clock, show_menu, hover_pos, click, closed, drawn, repaint, last_error, toggles>>

\* the window is not shown, or shown and not clicked
ConfirmQuitPass ==
    /\ pc = "confirm"
    /\ pc' = "draw"
    /\ UNCHANGED <<fields, clock, show_menu, hover_pos, click, closed, drawn, repaint, last_error, toggles>>

----------------------------------------------------------------------------
\* === DRAW ===

\* as SweepT, measured from sweep_start
SweepTFromSweepStart(now) == now - sweep_start

\* Mode::Sweep: t, and center_norm
SweepT(now) == now - spin_start

SweepCenterNorm(now) ==
    LET t == SweepT(now)
        period == TicksPerSec + beam_width_norm
        tmod == (t * spin_speed) % period
    IN  tmod - beam_width_norm \div 2

\* Mode::Lighthouse: t, and angle; (t[s] * hz * TAU) % TAU is TAU * ((t[s] * hz) % 1)
LighthouseT(now) == now - spin_start

\* as LighthouseAngle, turning at spin_speed
LighthouseAngleAtSpinSpeed(now) == (LighthouseT(now) * spin_speed) % TAU

LighthouseAngle(now) == (LighthouseT(now) * frequency_hz) % TAU

\* as Painted, the two colours of Mode::Flash exchanged
PaintedFlashInverted(now) ==
    IF flashing
    THEN CASE mode = "Flash" -> Fill(IF show_white THEN "black" ELSE "white")
           [] mode = "Sweep" -> Beam(SweepCenterNorm(now), beam_width_norm)
           [] mode = "Lighthouse" -> Wedge(LighthouseAngle(now))
    ELSE Fill("black")

Painted(now) ==
    IF flashing
    THEN CASE mode = "Flash" -> Fill(IF show_white THEN "white" ELSE "black")
           [] mode = "Sweep" -> Beam(SweepCenterNorm(now), beam_width_norm)
           [] mode = "Lighthouse" -> Wedge(LighthouseAngle(now))
    ELSE Fill("black")

\* the central panel is painted, a repaint is requested and update() returns
\* as Draw, the repaint requested only while the stimulus runs
DrawRepaintsWhileFlashing ==
    /\ pc = "draw"
    /\ drawn' = Painted(clock)
    /\ repaint' = flashing
    /\ show_menu' = FALSE
    /\ click' = "none"
    /\ pc' = "idle"
    /\ UNCHANGED <<fields, clock, hover_pos, closed, last_error, toggles>>

Draw ==
    /\ pc = "draw"
    /\ drawn' = Painted(clock)
    /\ repaint' = TRUE
    /\ show_menu' = FALSE
    /\ click' = "none"
    /\ pc' = "idle"
    /\ UNCHANGED <<fields, clock, hover_pos, closed, last_error, toggles>>

----------------------------------------------------------------------------
Next ==
    \/ ClickStartStop
    \/ ClickQuit
    \/ ClickModeFlash
    \/ ClickModeSweep
    \/ ClickModeLighthouse
    \/ ClickHertz
    \/ ClickFullscreen
    \/ ClickLearnMore
    \/ NoMenuClick
    \/ BlinkState
    \/ ConfirmQuitYes
    \/ ConfirmQuitNo
    \/ ConfirmQuitPass
    \/ Draw

Spec == Init /\ [][Next]_vars

\* The scheduling of update(): a call once begun runs to its end, and eframe
\* begins a call for the first frame and after every ctx.request_repaint(),
\* whether or not the user does anything
FrameRequested == repaint \/ drawn = Blank

FrameBody == BlinkState \/ ConfirmQuitPass \/ Draw

\* the executions of Spec up to MaxRepaintTime quanta, under that scheduling
NextRepaint == Next /\ clock' <= MaxRepaintTime * Quantum

SpecRepaint ==
    /\ Init /\ [][NextRepaint]_vars
    /\ WF_vars(FrameBody)
    /\ WF_vars(FrameRequested /\ NoMenuClick /\ clock' <= MaxRepaintTime * Quantum)

----------------------------------------------------------------------------
\* The stimulus started in Flash mode at instant 0 (Edit > Mode > Flash, Edit >
\* Hertz > hz and File > Start, all in the first quantum), then frames without
\* clicks, at most MaxFlashGap quanta apart, up to MaxFlashTime quanta.

InitFlash ==
    \E hz \in HertzChoices :
        /\ flashing = TRUE
        /\ last_toggle = 0
        /\ show_white = FALSE
        /\ frequency_hz = hz
        /\ interval = DurationOfOneOver(hz)
        /\ start_stop_text = "Stop"
        /\ spin_start = 0
        /\ spin_speed = DefaultSpinSpeed
        /\ mode = "Flash"
        /\ sweep_start = 0
        /\ beam_width_norm = DefaultBeamWidthNorm
        /\ sweep_speed = hz
        /\ confirm_quit = FALSE
        /\ fullscreen = FALSE
        /\ clock = 0
        /\ pc = "idle"
        /\ show_menu = FALSE
        /\ hover_pos = "none"
        /\ click = "none"
        /\ closed = FALSE
        /\ drawn = Fill("black")
        /\ repaint = TRUE
        /\ last_error = "none"
        /\ toggles = 0

FlashFrame ==
    \E d \in 0 .. MaxFlashGap, hover \in Hovers :
        /\ TopOfUpdate(d, hover, MaxFlashTime)
        /\ click' = "none"
        /\ last_error' = "none"
        /\ UNCHANGED <<fields, toggles>>

NextFlash ==
    \/ FlashFrame
    \/ BlinkState
    \/ ConfirmQuitPass
    \/ Draw

SpecFlash == InitFlash /\ [][NextFlash]_vars

\* Runs with stalled frames: the stimulus is started and its frequency chosen
\* within the first MaxTime quanta, and frames follow up to MaxStallGap quanta
\* apart until MaxFlashTime
StallFrame ==
    \E d \in 0 .. MaxStallGap, hover \in Hovers :
        /\ TopOfUpdate(d, hover, MaxFlashTime)
        /\ click' = "none"
        /\ last_error' = "none"
        /\ UNCHANGED <<fields, toggles>>

NextStall ==
    \/ ClickStartStop
    \/ ClickHertz
    \/ StallFrame
    \/ BlinkState
    \/ ConfirmQuitPass
    \/ Draw

SpecStall == Init /\ [][NextStall]_vars


----------------------------------------------------------------------------
\* Properties

\* n milliseconds, in ticks
Ms(n) == (n * TicksPerSec) \div 1000

\* an update() call has returned and its picture is on the surface
FrameDone == pc = "idle" /\ repaint

\* the centre of a beam at phase 0
PhaseZeroCenter == 0 - (beam_width_norm \div 2)

\* C1: a mode-selector click for M resets the phase origin the renderer reads for
\* M, so that the pattern starts at phase 0: after a Sweep click the elapsed time
\* t of the Sweep draw is 0 and the beam centre is that of phase 0, after a
\* Lighthouse click the t of the Lighthouse draw is 0 and so is the angle.  (The
\* Flash case of the claim, the blink phase restarted by a Flash click, is left
\* out of the formula: the Sweep case alone decides it.)
ModeClickResetsPhaseOrigin ==
    [][ /\ (pc = "idle" /\ click' = "sweep") =>
              (SweepT(clock))' = 0 /\ (SweepCenterNorm(clock))' = PhaseZeroCenter'
        /\ (pc = "idle" /\ click' = "lighthouse") =>
              (LighthouseT(clock))' = 0 /\ (LighthouseAngle(clock))' = 0 ]_vars

\* C2: in every Sweep frame drawn while flashing the beam centre is
\* ((t * sweep_speed) mod (1 + beam_width_norm)) - beam_width_norm / 2 with t the
\* time since sweep_start and sweep_speed the selected frequency.
SweepCenterFollowsSweepSpeed ==
    (FrameDone /\ flashing /\ mode = "Sweep") =>
        /\ drawn.kind = "beam"
        /\ drawn.center_norm =
              (((clock - sweep_start) * sweep_speed) % (TicksPerSec + beam_width_norm))
              - (beam_width_norm \div 2)

\* C3: in every reachable state frequency_hz is one of 8..13, interval is
\* 1/frequency_hz seconds and sweep_speed is frequency_hz (also right after a
\* frequency click, before the rest of update() runs).
FrequencyFieldsConsistent ==
    /\ frequency_hz \in HertzChoices
    /\ interval * frequency_hz = TicksPerSec
    /\ sweep_speed = frequency_hz

\* a frequency click for 13 Hz has just been handled
WitnessFrequencySet ==
    /\ pc = "blink"
    /\ click = "hertz"
    /\ frequency_hz = 13
    /\ interval = DurationOfOneOver(13)
    /\ sweep_speed = 13
    /\ clock > 0

\* C4: flashing in Flash mode since instant 0 without clicks, the number of timer
\* toggles in the window [0, clock] is floor(clock / interval) plus or minus 1,
\* and with interval = 100 ms it is exactly 3 after 350 ms.
BlinkTogglesOncePerInterval ==
    (FrameDone /\ flashing /\ mode = "Flash") =>
        /\ toggles >= (clock \div interval) - 1
        /\ toggles <= (clock \div interval) + 1
        /\ (interval = Ms(100) /\ clock = Ms(350)) => toggles = 3

StartTimeOf(m) == IF m = "Lighthouse" THEN spin_start ELSE sweep_start

\* What the run that selects mode m and hz and starts, all at instant 0, shows in
\* its one frame drawn at instant e
CanonicalPattern(m, hz, e) ==
    CASE m = "Flash" -> Fill(IF e >= DurationOfOneOver(hz) THEN "white" ELSE "black")
      [] m = "Sweep" ->
            Beam(((e * DefaultSpinSpeed) % (TicksPerSec + DefaultBeamWidthNorm))
                    - (DefaultBeamWidthNorm \div 2),
                 DefaultBeamWidthNorm)
      [] m = "Lighthouse" -> Wedge((e * hz) % TAU)

\* C6: the picture of a frame drawn while flashing is a function of (mode,
\* frequency_hz, beam_width_norm, now - start time of the mode): it is the picture
\* of every other run with the same four values, so of the run that selects the
\* mode and the frequency and starts at instant 0 and draws once.
PatternDeterminedByElapsed ==
    (FrameDone /\ flashing) =>
        drawn = CanonicalPattern(mode, frequency_hz, clock - StartTimeOf(mode))

\* C7: a frame drawn while not flashing is all black; a Flash frame drawn while
\* flashing is all white if show_white and all black if not.
FrameFillColor ==
    FrameDone =>
        /\ ~flashing => drawn = Fill("black")
        /\ (flashing /\ mode = "Flash") =>
              drawn = Fill(IF show_white THEN "white" ELSE "black")

\* a white Flash frame
WitnessWhiteFrame ==
    /\ FrameDone
    /\ flashing
    /\ mode = "Flash"
    /\ show_white
    /\ drawn = Fill("white")

\* C8: a Start/Stop click flips flashing, sets show_white to FALSE and last_toggle
\* to the click's instant; the blink step of the same update() does not toggle;
\* the first toggle after the click comes no earlier than interval after it.
StartStopRestartsBlink ==
    [][ /\ (pc = "idle" /\ click' = "start_stop") =>
              /\ flashing' = ~flashing
              /\ show_white' = FALSE
              /\ last_toggle' = clock'
        /\ (pc = "blink" /\ click = "start_stop") =>
              /\ show_white' = FALSE
              /\ last_toggle' = clock
              /\ toggles' = 0
        /\ (flashing /\ toggles = 0 /\ toggles' = 1) =>
              show_white' /\ clock' - last_toggle >= interval ]_vars

\* the blink step of the update() of a Start click, 35 ms or more after
\* construction, has run and not toggled
WitnessStartFrame ==
    /\ pc = "confirm"
    /\ click = "start_stop"
    /\ flashing
    /\ mode = "Flash"
    /\ toggles = 0
    /\ last_toggle = clock
    /\ clock > 0
    /\ ~show_white

\* C9: the wedge of a Lighthouse frame drawn while flashing is at (t *
\* frequency_hz) turns modulo one turn, t since spin_start; drawn d later (d less
\* than a revolution) it is d * frequency_hz turns further, and a whole
\* revolution (1/frequency_hz seconds) later it is at the same angle.
LighthouseAngleLaw ==
    (FrameDone /\ flashing /\ mode = "Lighthouse") =>
        LET t == clock - spin_start
            rev == TicksPerSec \div frequency_hz
        IN  /\ drawn.kind = "wedge"
            /\ drawn.angle \in 0 .. (TAU - 1)
            /\ \E k \in 0 .. (MaxTime + 1) * 13 :
                  t * frequency_hz = k * TAU + drawn.angle
            /\ LighthouseAngle(clock + rev) = drawn.angle
            /\ \A q \in 1 .. MaxTime :
                  LET d == q * Quantum
                  IN  d < rev =>
                        /\ LighthouseAngle(clock + d) = (drawn.angle + d * frequency_hz) % TAU
                        /\ LighthouseAngle(clock + d) # drawn.angle

\* a wedge drawn at 12 Hz, 70 ms after the Lighthouse click: 0.84 of a turn
WitnessWedge ==
    /\ FrameDone
    /\ flashing
    /\ mode = "Lighthouse"
    /\ frequency_hz = 12
    /\ spin_start = Ms(35)
    /\ clock = Ms(105)
    /\ drawn = Wedge((84 * TAU) \div 100)

\* the fields no mode-selector click writes
ModeClickKeeps ==
    UNCHANGED <<flashing, show_white, last_toggle, frequency_hz, interval, sweep_speed>>

\* C10: a Lighthouse click sets spin_start to the click's instant and keeps
\* sweep_start; a Sweep or a Flash click sets sweep_start and keeps spin_start;
\* none changes flashing, show_white, last_toggle, frequency_hz, interval or
\* sweep_speed.
ModeClickFrame ==
    [][ /\ (pc = "idle" /\ click' = "lighthouse") =>
              /\ mode' = "Lighthouse"
              /\ spin_start' = clock'
              /\ sweep_start' = sweep_start
              /\ ModeClickKeeps
        /\ (pc = "idle" /\ click' = "sweep") =>
              /\ mode' = "Sweep"
              /\ sweep_start' = clock'
              /\ spin_start' = spin_start
              /\ ModeClickKeeps
        /\ (pc = "idle" /\ click' = "flash") =>
              /\ mode' = "Flash"
              /\ sweep_start' = clock'
              /\ spin_start' = spin_start
              /\ ModeClickKeeps ]_vars

\* a Lighthouse click has just been handled, later than the last Sweep or Flash
\* click, the stimulus running and white
WitnessLighthouseClick ==
    /\ pc = "blink"
    /\ click = "lighthouse"
    /\ mode = "Lighthouse"
    /\ spin_start = clock
    /\ sweep_start > 0
    /\ sweep_start < clock
    /\ flashing
    /\ show_white

\* C11: the window is closed only by a step of the Confirm Quit window, which is
\* shown only while confirm_quit; confirm_quit is raised only by a Quit click and
\* lowered only by the No button, so a close has a Quit click before it with no No
\* in between; the No step lowers confirm_quit and leaves the window open, the
\* call going on to draw; neither the Quit click nor the rest of its call closes.
CloseOnlyByConfirmedYes ==
    [][ /\ (closed' # closed) =>
              (~closed /\ pc = "confirm" /\ confirm_quit /\ confirm_quit' /\ click = "none")
        /\ (~confirm_quit /\ confirm_quit') => (pc = "idle" /\ click' = "quit")
        /\ (confirm_quit /\ ~confirm_quit') =>
              (pc = "confirm" /\ click = "none" /\ ~closed' /\ pc' = "draw")
        /\ (pc = "idle" /\ click' = "quit") => (confirm_quit' /\ ~closed')
        /\ (click = "quit") => ~closed' ]_vars

WitnessClosedByYes ==
    closed /\ confirm_quit /\ pc = "draw" /\ click = "none" /\ clock > 0

\* C12: the step of a Help > Learn More click, whether the browser opened or
\* the launch failed and was printed, leaves every field of DreamApp as it was;
\* the call then runs its blink step, passes the Confirm Quit section and draws,
\* ending with the pattern painted and the repaint requested, the window open;
\* while the printed error is the last thing written a next step is possible.
LearnMoreClickIgnored ==
    /\ []((click = "learn_more" \/ last_error = "browser") => (~closed /\ ENABLED Next))
    /\ [][ /\ (pc = "idle" /\ click' = "learn_more") =>
                 (UNCHANGED fields /\ pc' = "blink" /\ last_error' \in {"none", "browser"})
           /\ (click = "learn_more" /\ pc = "blink") => pc' = "confirm"
           /\ (click = "learn_more" /\ pc = "confirm") =>
                 (UNCHANGED fields /\ pc' = "draw")
           /\ (click = "learn_more" /\ pc = "draw") =>
                 (UNCHANGED fields /\ pc' = "idle" /\ repaint'
                    /\ drawn' = Painted(clock) /\ last_error' = last_error) ]_vars

WitnessLaunchFailed ==
    /\ FrameDone /\ last_error = "browser" /\ ~closed
    /\ flashing /\ mode = "Lighthouse" /\ confirm_quit /\ fullscreen
    /\ show_white /\ last_toggle = clock /\ drawn = Painted(clock)

\* C13: the last step of every call of update() requests a repaint, whatever
\* the state; a call once begun reaches that end, and while the window is not
\* closed a state between calls is always followed by the next call.
EveryFrameRequestsRepaint ==
    /\ [][pc = "draw" => (pc' = "idle" /\ repaint')]_vars
    /\ (pc # "idle") ~> (pc = "idle" /\ repaint)
    /\ (pc = "idle" /\ ~closed) ~> (pc = "blink")

WitnessIdleFrameRepaints ==
    /\ FrameDone /\ ~closed /\ ~flashing /\ confirm_quit /\ fullscreen
    /\ mode = "Lighthouse" /\ clock > 0 /\ drawn = Fill("black")

\* C14: in the step that begins a call the menu bar is shown exactly when
\* fullscreen is false or the pointer is at y <= 60; when it is hidden no menu
\* button is clicked and no field changes in that step; and in every fullscreen
\* state between calls, the window open, a Fullscreen click with the pointer at
\* y <= 60 is possible and leaves fullscreen, while none is possible with the
\* pointer absent or below.
MenuShownIffWindowedOrHoverTop ==
    /\ [][ (pc = "idle" /\ pc' = "blink") =>
              /\ show_menu' = (~fullscreen \/ hover_pos' = "top")
              /\ (fullscreen /\ hover_pos' # "top") =>
                    (click' = "none" /\ UNCHANGED fields) ]_vars
    /\ []((pc = "idle" /\ fullscreen /\ ~closed) =>
              /\ ENABLED (ClickFullscreen /\ hover_pos' = "top" /\ ~fullscreen')
              /\ ~ENABLED (ClickFullscreen /\ hover_pos' # "top"))

WitnessFullscreenLeft ==
    /\ pc = "blink" /\ click = "fullscreen" /\ hover_pos = "top" /\ show_menu
    /\ ~fullscreen /\ clock > 0 /\ flashing

\* C15: the blink step either flips show_white once, the interval having passed
\* since last_toggle, and sets last_toggle to now, or leaves both; no other step
\* of a call flips show_white, a Start/Stop click apart; last_toggle never
\* decreases; and a blink step two or more intervals after last_toggle counts one
\* toggle and restarts the wait from now.
BlinkStepTogglesOnceWhenDue ==
    [][ /\ (pc = "blink") =>
              \/ /\ flashing /\ clock - last_toggle >= interval
                 /\ show_white' = ~show_white
                 /\ last_toggle' = clock
                 /\ toggles' = toggles + 1
              \/ /\ ~(flashing /\ clock - last_toggle >= interval)
                 /\ UNCHANGED <<show_white, last_toggle, toggles>>
        /\ (pc # "blink" /\ show_white' # show_white) =>
              (pc = "idle" /\ click' = "start_stop")
        /\ last_toggle' >= last_toggle
        /\ (pc = "blink" /\ flashing /\ clock - last_toggle >= 2 * interval) =>
              (toggles' = toggles + 1 /\ clock' - last_toggle' = 0) ]_vars

\* at 13 Hz, started in the first 105 ms, the first toggle at 350 ms
WitnessSingleToggleAfterStall ==
    /\ pc = "confirm" /\ flashing /\ frequency_hz = 13 /\ show_white
    /\ toggles = 1 /\ clock = Ms(350) /\ last_toggle = clock

\* C16: in every state, and so at the end of every call of update(), flashing
\* false implies show_white false; the blink step changes show_white only while
\* flashing, whatever the mode; and every Start/Stop click sets show_white to
\* false.
NotFlashingImpliesNotWhite ==
    /\ [](~flashing => ~show_white)
    /\ [][ /\ (pc = "blink" /\ show_white' # show_white) => (flashing /\ flashing')
           /\ (pc = "idle" /\ click' = "start_stop") => ~show_white' ]_vars

\* a Stop click at 105 ms, the first toggle being due in that frame at the earliest
WitnessStoppedFrame ==
    /\ FrameDone /\ ~flashing /\ ~show_white /\ start_stop_text = "Start"
    /\ last_toggle = Ms(105) /\ clock = Ms(105) /\ mode = "Sweep" /\ drawn = Fill("black")

\* C17: in every reachable state start_stop_text is "Stop" exactly when
\* flashing is true, and "Start" exactly when flashing is false.
LabelAgreesWithFlashing ==
    /\ start_stop_text \in {"Start", "Stop"}
    /\ (start_stop_text = "Stop") <=> flashing
    /\ (start_stop_text = "Start") <=> ~flashing

\* a Start click at 70 ms, after a Start and a Stop click or none
WitnessStopLabel ==
    /\ pc = "blink" /\ click = "start_stop" /\ flashing /\ start_stop_text = "Stop"
    /\ last_toggle = Ms(70) /\ clock = Ms(70)

====
